---------------------------- MODULE Spec2Model ----------------------------
(***************************************************************************)
(* memu_memory: the long-term memory plugin (src/__init__.py).             *)
(*                                                                         *)
(* State: the plugin configuration (MemUConfig) and the module-level      *)
(* client slot memu_client.  Operations: the lazy initialiser              *)
(* _initialize_client_if_needed and the three mounted entry points         *)
(* inject_relevant_memories, memorize_conversation and recall_memory.      *)
(* No handler contains a real suspension point (the only await is on the   *)
(* initialiser, which itself never awaits, and the MemuClient calls are    *)
(* synchronous), so each handler is one atomic action.  SpecTasks checks    *)
(* that reading: there the handlers run as coroutines, step by step, and   *)
(* sched records which coroutine holds the event loop.                     *)
(*                                                                         *)
(* Python values.  An Optional value is a sequence of length at most one   *)
(* (None is <<>>).  A str that the code builds or formats is a sequence of *)
(* non-empty pieces, so that concatenation, join and emptiness are         *)
(* computed and not assumed; configuration strings and identifiers that    *)
(* the code only passes along are atoms.  The non-ASCII literals of the    *)
(* source are written as ASCII stand-ins.                                  *)
(***************************************************************************)
EXTENDS Naturals, Sequences, FiniteSets

VARIABLES config, memu_client, ctorCalls, nCalls, allValid, call, sched

vars == <<config, memu_client, ctorCalls, nCalls, allValid, call, sched>>

-----------------------------------------------------------------------------
(* Bounds of the model *)

\* Number of handler invocations in one behaviour.
MaxCalls == 3
\* Longest ranked list the remote service returns.
MaxItems == 2
\* Longest message history of a context under SpecWindow.
MaxHist == 5
\* Number of overlapping handler invocations under SpecTasks.
MaxTasks == 2

-----------------------------------------------------------------------------
(* Python values *)

None == <<>>
Some(x) == <<x>>

\* A str literal or an interpolated str value as text: "" is the empty text.
Str(s) == IF s = "" THEN <<>> ELSE <<s>>

\* sep.join(parts)
RECURSIVE Join(_, _)
Join(sep, parts) ==
    IF parts = <<>> THEN <<>>
    ELSE IF Len(parts) = 1 THEN parts[1]
    ELSE parts[1] \o sep \o Join(sep, Tail(parts))

\* xs[-n:]
LastN(xs, n) ==
    LET start == IF Len(xs) > n THEN Len(xs) - n ELSE 0
    IN  SubSeq(xs, start + 1, Len(xs))

\* bool(x) of an Optional object, and of a list
Truthy(x) == x # None

Returned(text) == [kind |-> "return", value |-> text, exc_type |-> "", exc_msg |-> <<>>]
Raised(type, msg) == [kind |-> "raise", value |-> <<>>, exc_type |-> type, exc_msg |-> msg]

-----------------------------------------------------------------------------
(* Configuration: MemUConfig *)

\* MemUConfig._validate_api_key (mode="before"): None becomes "".
validate_api_key(v) == IF v = None THEN "" ELSE v[1]

DefaultConfig ==
    [MEMU_API_KEY |-> "", BASE_URL |-> "https://api.memu.so",
     AGENT_ID |-> "nekro_agent", AGENT_NAME |-> "Nekro Assistant",
     RECALL_TOP_K |-> 3]

ApiKeyInputs == {None, Some(""), Some("key1")}
BaseUrls == {"https://api.memu.so", "https://alt.example"}
Personas == {<<"nekro_agent", "Nekro Assistant">>, <<"agent_b", "Persona B">>}
TopKs == {0, 3}

-----------------------------------------------------------------------------
(* Client Lifecycle Manager *)

\* MemuClient(base_url=..., api_key=...): the handle built by the serial-th
\* invocation of the constructor.
MemuClient(base_url, api_key, serial) ==
    [base_url |-> base_url, api_key |-> api_key, serial |-> serial]

\* The initialiser without its early return: it constructs on every call.
initialize_client_always(client, cfg, ctorEnv, serial) ==
    IF cfg.MEMU_API_KEY = "" THEN [client |-> client, ctor |-> "nokey"]
    ELSE IF ctorEnv = "ok"
         THEN [client |-> Some(MemuClient(cfg.BASE_URL, cfg.MEMU_API_KEY, serial)),
               ctor |-> "ok"]
         ELSE [client |-> client, ctor |-> "raised"]

\* The initialiser without its API-key check: it constructs with an empty key.
initialize_client_any_key(client, cfg, ctorEnv, serial) ==
    IF client # None THEN [client |-> client, ctor |-> "cached"]
    ELSE IF ctorEnv = "ok"
         THEN [client |-> Some(MemuClient(cfg.BASE_URL, cfg.MEMU_API_KEY, serial)),
               ctor |-> "ok"]
         ELSE [client |-> client, ctor |-> "raised"]

\* The initialiser re-validating the slot: a handle built under another API
\* key than the configured one is dropped before the usual steps.
initialize_client_revalidating(client, cfg, ctorEnv, serial) ==
    LET kept == IF client # None /\ client[1].api_key # cfg.MEMU_API_KEY
                THEN None ELSE client
    IN  IF kept # None THEN [client |-> kept, ctor |-> "cached"]
        ELSE IF cfg.MEMU_API_KEY = "" THEN [client |-> kept, ctor |-> "nokey"]
        ELSE IF ctorEnv = "ok"
             THEN [client |-> Some(MemuClient(cfg.BASE_URL, cfg.MEMU_API_KEY, serial)),
                   ctor |-> "ok"]
             ELSE [client |-> kept, ctor |-> "raised"]

\* The initialiser marking the slot before the constructor has returned: a
\* constructor that raises leaves a handle in the slot.
initialize_client_keeps_failed(client, cfg, ctorEnv, serial) ==
    IF client # None THEN [client |-> client, ctor |-> "cached"]
    ELSE IF cfg.MEMU_API_KEY = "" THEN [client |-> client, ctor |-> "nokey"]
    ELSE [client |-> Some(MemuClient(cfg.BASE_URL, cfg.MEMU_API_KEY, serial)),
          ctor |-> IF ctorEnv = "ok" THEN "ok" ELSE "raised"]

\* _initialize_client_if_needed, with ctorEnv the outcome the constructor has
\* if it is invoked ("ok" or "raise") and serial the number of this invocation.
\* ctor reports what happened: "cached" (slot already set), "nokey",
\* "ok" (constructed and stored), "raised" (exception swallowed).
initialize_client_if_needed(client, cfg, ctorEnv, serial) ==
    IF client # None THEN [client |-> client, ctor |-> "cached"]
    ELSE IF cfg.MEMU_API_KEY = "" THEN [client |-> client, ctor |-> "nokey"]
    ELSE IF ctorEnv = "ok"
         THEN [client |-> Some(MemuClient(cfg.BASE_URL, cfg.MEMU_API_KEY, serial)),
               ctor |-> "ok"]
         ELSE [client |-> client, ctor |-> "raised"]

CtorInvoked(ctor) == ctor \in {"ok", "raised"}

-----------------------------------------------------------------------------
(* The remote service, as the handlers see it *)

\* What one call of a MemuClient method does: it raises exc, or returns value.
RemoteRaises(type, msg) == [raises |-> TRUE, exc |-> [type |-> type, msg |-> msg], value |-> None]
RemoteReturns(v) == [raises |-> FALSE, exc |-> [type |-> "", msg |-> <<>>], value |-> v]

\* A RelatedMemory item: only memory.content is read.
MemoryItem(content) == [memory |-> [content |-> content]]
RetrieveResponse(items) == [related_memories |-> items]
MemorizeResponse(task_id) == [task_id |-> task_id]

-----------------------------------------------------------------------------
(* Auto-Recall Injector: inject_relevant_memories *)

\* The window of _ctx.message_history[-4:]
HistoryWindow == 4
\* top_k of recall_memory's retrieve call
RecallTopK == 3

InjectionHeader == "--- Relevant Memories Retrieved From Your Past ---"

\* The window taken from the front of the history: message_history[:4]
recent_history_oldest(ctx) ==
    LET h == ctx.message_history
        window == SubSeq(h, 1, IF Len(h) > HistoryWindow THEN HistoryWindow ELSE Len(h))
    IN  [i \in 1..Len(window) |->
            Str(window[i].role) \o Str(": ") \o window[i].content]

\* The comprehension with a filter: ... for msg in ... if msg.content
RECURSIVE NonBlank(_)
NonBlank(msgs) ==
    IF msgs = <<>> THEN <<>>
    ELSE (IF Head(msgs).content = <<>> THEN <<>> ELSE <<Head(msgs)>>)
         \o NonBlank(Tail(msgs))

recent_history_nonblank(ctx) ==
    LET window == NonBlank(LastN(ctx.message_history, HistoryWindow))
    IN  [i \in 1..Len(window) |->
            Str(window[i].role) \o Str(": ") \o window[i].content]

\* [f"{msg.role}: {msg.content}" for msg in _ctx.message_history[-4:]]
recent_history(ctx) ==
    LET window == LastN(ctx.message_history, HistoryWindow)
    IN  [i \in 1..Len(window) |->
            Str(window[i].role) \o Str(": ") \o window[i].content]

\* "\n".join(recent_history)
query_text(ctx) == Join(Str("\n"), recent_history(ctx))

\* The guard without its RECALL_TOP_K test.
InjectDisabled_client_only(client, cfg) == ~Truthy(client)

\* if not memu_client or current_config.RECALL_TOP_K == 0
InjectDisabled(client, cfg) == ~Truthy(client) \/ cfg.RECALL_TOP_K = 0

\* The lines each ended by a newline instead of joined by one.
prompt_text_terminated(related_memories) ==
    LET prompt_lines ==
            <<Str(InjectionHeader)>> \o
            [i \in 1..Len(related_memories) |->
                Str("- ") \o related_memories[i].memory.content]
    IN  Join(Str("\n"), prompt_lines) \o Str("\n")

\* prompt_lines = [header] + ["- " + content ...]; "\n".join(prompt_lines)
prompt_text(related_memories) ==
    LET prompt_lines ==
            <<Str(InjectionHeader)>> \o
            [i \in 1..Len(related_memories) |->
                Str("- ") \o related_memories[i].memory.content]
    IN  Join(Str("\n"), prompt_lines)

\* No except clause: the exception leaves the injector.
InjectOnException_propagated(exc) == Raised(exc.type, exc.msg)

\* except Exception as e: logger.warning(...); return ""
InjectOnException(exc) == Returned(<<>>)

RetrieveRequest(client, query, user_id, top_k) ==
    [op |-> "retrieve", handle |-> client[1], query |-> query,
     user_id |-> user_id, top_k |-> top_k]

\* if not retrieved_response or not retrieved_response.related_memories
NoMemories(response) ==
    ~Truthy(response) \/ ~Truthy(response[1].related_memories)

inject_relevant_memories(client, cfg, ctx, ctorEnv, remoteEnv, serial) ==
    LET init == initialize_client_if_needed(client, cfg, ctorEnv, serial)
        c == init.client
        quiet(res) == [client |-> c, ctor |-> init.ctor, requests |-> <<>>,
                       responses |-> <<>>, result |-> res]
        asked(res) == [client |-> c, ctor |-> init.ctor,
                       requests |-> <<RetrieveRequest(c, query_text(ctx),
                                        ctx.from_chat_key, cfg.RECALL_TOP_K)>>,
                       responses |-> <<remoteEnv>>, result |-> res]
    IN  IF InjectDisabled(c, cfg) THEN quiet(Returned(<<>>))
        ELSE IF query_text(ctx) = <<>> THEN quiet(Returned(<<>>))
        ELSE IF remoteEnv.raises THEN asked(InjectOnException(remoteEnv.exc))
        ELSE IF NoMemories(remoteEnv.value) THEN asked(Returned(<<>>))
        ELSE asked(Returned(prompt_text(remoteEnv.value[1].related_memories)))

-----------------------------------------------------------------------------
(* Memorize Operation: memorize_conversation *)

NotInitializedMessage ==
    "memu.so client is not initialized or failed to initialize. Please check the plugin configuration."

\* The guard inside the try block: the ConnectionError is caught and wrapped.
NotInitializedError_wrapped ==
    Raised("RuntimeError",
           Str("Failed to memorize conversation: ") \o Str("ConnectionError")
               \o Str(": ") \o Str(NotInitializedMessage))

\* raise ConnectionError(...), before the try block
NotInitializedError == Raised("ConnectionError", Str(NotInitializedMessage))

\* agent_id if agent_id is not None else current_config.AGENT_ID
final_agent_id(agent_id, cfg) == IF agent_id # None THEN agent_id[1] ELSE cfg.AGENT_ID

\* agent_name or current_config.AGENT_NAME: a supplied "" falls back.
final_agent_name_truthy(agent_name, cfg) ==
    IF agent_name # None /\ agent_name[1] # "" THEN agent_name[1] ELSE cfg.AGENT_NAME

\* agent_name if agent_name is not None else current_config.AGENT_NAME
final_agent_name(agent_name, cfg) ==
    IF agent_name # None THEN agent_name[1] ELSE cfg.AGENT_NAME

\* [{"role": "user", "content": conversation}]
structured_conversation(conversation) == <<[role |-> "user", content |-> conversation]>>

MemorizeRequest(client, ctx, conversation, agent_id, agent_name, cfg) ==
    [op |-> "memorize", handle |-> client[1],
     conversation |-> structured_conversation(conversation),
     user_id |-> ctx.from_chat_key, user_name |-> ctx.channel_name,
     agent_id |-> final_agent_id(agent_id, cfg),
     agent_name |-> final_agent_name(agent_name, cfg)]

\* The f-string returned on success (a check mark, the persona name, and a
\* fixed Chinese sentence saying the instruction was received).
Confirmation(name) ==
    Str("[OK] ") \o Str(name) \o Str(" has received the instruction and will note it down!")

\* The failure logged and dropped: the handler returns as if nothing happened.
MemorizeOnException_swallowed(exc) == Returned(<<>>)

\* except Exception as e: raise RuntimeError(f"Failed to memorize conversation: {type(e).__name__}: {e}")
MemorizeOnException(exc) ==
    Raised("RuntimeError",
           Str("Failed to memorize conversation: ") \o Str(exc.type) \o Str(": ") \o exc.msg)

\* The handler taking the requester from its chat_key argument.
memorize_conversation_by_chat_key(client, cfg, ctx, chat_key, conversation, agent_id, agent_name, ctorEnv, remoteEnv, serial) ==
    LET init == initialize_client_if_needed(client, cfg, ctorEnv, serial)
        c == init.client
        asked(res) == [client |-> c, ctor |-> init.ctor,
                       requests |-> <<[MemorizeRequest(c, ctx, conversation,
                                                       agent_id, agent_name, cfg)
                                        EXCEPT !.user_id = chat_key]>>,
                       responses |-> <<remoteEnv>>, result |-> res]
    IN  IF ~Truthy(c)
        THEN [client |-> c, ctor |-> init.ctor, requests |-> <<>>,
              responses |-> <<>>, result |-> NotInitializedError]
        ELSE IF remoteEnv.raises THEN asked(MemorizeOnException(remoteEnv.exc))
        ELSE asked(Returned(Confirmation(final_agent_name(agent_name, cfg))))

\* The handler without its call of the initialiser: it takes the slot as it is.
memorize_conversation_no_ensure(client, cfg, ctx, chat_key, conversation, agent_id, agent_name, ctorEnv, remoteEnv, serial) ==
    LET asked(res) == [client |-> client, ctor |-> "none",
                       requests |-> <<MemorizeRequest(client, ctx, conversation,
                                                      agent_id, agent_name, cfg)>>,
                       responses |-> <<remoteEnv>>, result |-> res]
    IN  IF ~Truthy(client)
        THEN [client |-> client, ctor |-> "none", requests |-> <<>>,
              responses |-> <<>>, result |-> NotInitializedError]
        ELSE IF remoteEnv.raises THEN asked(MemorizeOnException(remoteEnv.exc))
        ELSE asked(Returned(Confirmation(final_agent_name(agent_name, cfg))))

memorize_conversation(client, cfg, ctx, chat_key, conversation, agent_id, agent_name, ctorEnv, remoteEnv, serial) ==
    LET init == initialize_client_if_needed(client, cfg, ctorEnv, serial)
        c == init.client
        asked(res) == [client |-> c, ctor |-> init.ctor,
                       requests |-> <<MemorizeRequest(c, ctx, conversation,
                                                      agent_id, agent_name, cfg)>>,
                       responses |-> <<remoteEnv>>, result |-> res]
    IN  IF ~Truthy(c)
        THEN [client |-> c, ctor |-> init.ctor, requests |-> <<>>,
              responses |-> <<>>, result |-> NotInitializedError]
        ELSE IF remoteEnv.raises THEN asked(MemorizeOnException(remoteEnv.exc))
        ELSE asked(Returned(Confirmation(final_agent_name(agent_name, cfg))))

-----------------------------------------------------------------------------
(* Active Recall Tool: recall_memory *)

\* The fixed Chinese "nothing relevant was found in memory" sentence.
NotFoundMessage == "(No relevant information was found in memory.)"
\* The Chinese lead-in line, ending with a newline.
RecallLeadIn == "From what I recall, this is the most relevant information:\n"

\* str(n) of a positive int: its decimal digits
Digit(d) == SubSeq(<<"0", "1", "2", "3", "4", "5", "6", "7", "8", "9">>, d + 1, d + 1)

RECURSIVE IndexText(_)
IndexText(n) == IF n < 10 THEN Digit(n) ELSE IndexText(n \div 10) \o Digit(n % 10)

\* The lines numbered with enumerate's own index: f"{i}. ..."
RECURSIVE response_lines_zero_based(_, _)
response_lines_zero_based(related_memories, i) ==
    IF i >= Len(related_memories) THEN <<>>
    ELSE IndexText(i) \o Str(". ")
         \o related_memories[i + 1].memory.content \o Str("\n")
         \o response_lines_zero_based(related_memories, i + 1)

\* response_text += f"{i + 1}. {memory_item.memory.content}\n", for i = 0..n-1
RECURSIVE response_lines(_, _)
response_lines(related_memories, i) ==
    IF i >= Len(related_memories) THEN <<>>
    ELSE IndexText(i + 1) \o Str(". ")
         \o related_memories[i + 1].memory.content \o Str("\n")
         \o response_lines(related_memories, i + 1)

response_text(related_memories) ==
    Str(RecallLeadIn) \o response_lines(related_memories, 0)

\* The failure reported as "nothing found".
RecallOnException_not_found(exc) == Returned(Str(NotFoundMessage))

\* except Exception as e: raise RuntimeError(f"Failed to recall memory: {type(e).__name__}: {e}")
RecallOnException(exc) ==
    Raised("RuntimeError",
           Str("Failed to recall memory: ") \o Str(exc.type) \o Str(": ") \o exc.msg)

\* The tool asking for the configured number of results: top_k=RECALL_TOP_K
recall_memory_config_top_k(client, cfg, ctx, query, ctorEnv, remoteEnv, serial) ==
    LET init == initialize_client_if_needed(client, cfg, ctorEnv, serial)
        c == init.client
        asked(res) == [client |-> c, ctor |-> init.ctor,
                       requests |-> <<RetrieveRequest(c, query, ctx.from_chat_key,
                                                      cfg.RECALL_TOP_K)>>,
                       responses |-> <<remoteEnv>>, result |-> res]
    IN  IF ~Truthy(c)
        THEN [client |-> c, ctor |-> init.ctor, requests |-> <<>>,
              responses |-> <<>>, result |-> NotInitializedError]
        ELSE IF remoteEnv.raises THEN asked(RecallOnException(remoteEnv.exc))
        ELSE IF NoMemories(remoteEnv.value) THEN asked(Returned(Str(NotFoundMessage)))
        ELSE asked(Returned(response_text(remoteEnv.value[1].related_memories)))

recall_memory(client, cfg, ctx, query, ctorEnv, remoteEnv, serial) ==
    LET init == initialize_client_if_needed(client, cfg, ctorEnv, serial)
        c == init.client
        asked(res) == [client |-> c, ctor |-> init.ctor,
                       requests |-> <<RetrieveRequest(c, query, ctx.from_chat_key,
                                                      RecallTopK)>>,
                       responses |-> <<remoteEnv>>, result |-> res]
    IN  IF ~Truthy(c)
        THEN [client |-> c, ctor |-> init.ctor, requests |-> <<>>,
              responses |-> <<>>, result |-> NotInitializedError]
        ELSE IF remoteEnv.raises THEN asked(RecallOnException(remoteEnv.exc))
        ELSE IF NoMemories(remoteEnv.value) THEN asked(Returned(Str(NotFoundMessage)))
        ELSE asked(Returned(response_text(remoteEnv.value[1].related_memories)))

-----------------------------------------------------------------------------
(* Inputs *)

Configs ==
    {[MEMU_API_KEY |-> validate_api_key(k), BASE_URL |-> u, AGENT_ID |-> p[1],
      AGENT_NAME |-> p[2], RECALL_TOP_K |-> t] :
        k \in ApiKeyInputs, u \in BaseUrls, p \in Personas, t \in TopKs}

\* All sequences over S of length at most n.
RECURSIVE SeqsUpTo(_, _)
SeqsUpTo(S, n) ==
    IF n = 0 THEN {<<>>}
    ELSE LET shorter == SeqsUpTo(S, n - 1)
         IN  shorter \cup {Append(q, x) : q \in shorter, x \in S}

Chats == {<<"chat_a", "Alice">>, <<"chat_b", "Bob">>}

MsgUser == [role |-> "user", content |-> <<"I like blue">>]
MsgBot == [role |-> "assistant", content |-> <<"Noted.">>]
MsgBlank == [role |-> "user", content |-> <<>>]
Messages == {MsgUser, MsgBot, MsgBlank}

AgentCtx(chat, history) ==
    [from_chat_key |-> chat[1], channel_name |-> chat[2], message_history |-> history]

ShortHistories == {<<>>, <<MsgUser, MsgBot>>}
Contexts == {AgentCtx(c, h) : c \in Chats, h \in ShortHistories}
LongContexts == {AgentCtx(<<"chat_a", "Alice">>, h) : h \in SeqsUpTo(Messages, MaxHist)}

ExcTimeout == [type |-> "TimeoutError", msg |-> <<"timed out">>]
ExcBare == [type |-> "ValueError", msg |-> <<>>]
Exceptions == {ExcTimeout, ExcBare}

Contents == {<<"likes blue">>, <<"dislikes coffee">>}
ItemLists == SeqsUpTo({MemoryItem(c) : c \in Contents}, MaxItems)

RetrieveOutcomes ==
    {RemoteRaises(e.type, e.msg) : e \in Exceptions}
    \cup {RemoteReturns(None)}
    \cup {RemoteReturns(Some(RetrieveResponse(items))) : items \in ItemLists}

MemorizeOutcomes ==
    {RemoteRaises(e.type, e.msg) : e \in Exceptions}
    \cup {RemoteReturns(Some(MemorizeResponse("task-1")))}

CtorOutcomes == {"ok", "raise"}
Queries == {<<"favourite colour?">>, <<>>}
Conversations == {<<"The user's favourite colour is blue.">>}
OptionalIds == {None, Some(""), Some("X")}
OptionalNames == {None, Some(""), Some("Y")}

-----------------------------------------------------------------------------
(* State machine *)

\* No handler has run since the last configuration change.
IdleCall ==
    [op |-> "none", ctx |-> AgentCtx(<<"", "">>, <<>>), args |-> <<>>,
     pre_client |-> None, ctor |-> "none", requests |-> <<>>, responses |-> <<>>,
     result |-> Returned(<<>>)]

\* The coroutines of the handler invocations on the host's event loop: task
\* holds each one's position, running the one that holds the loop (0: none).
Tasks == 1..MaxTasks

IdleTask == [pc |-> "idle", op |-> "none", overlapped |-> FALSE, built |-> None, used |-> None]

IdleSched == [task |-> [t \in Tasks |-> IdleTask], running |-> 0]

\* Module import: config = plugin.get_config(MemUConfig); memu_client = None
Init ==
    /\ config \in Configs
    /\ memu_client = None
    /\ ctorCalls = 0
    /\ nCalls = 0
    /\ allValid = TRUE
    /\ call = IdleCall
    /\ sched = IdleSched

\* The bookkeeping every handler invocation shares: r is the handler's outcome.
Invoke(op, ctx, args, r) ==
    /\ nCalls < MaxCalls
    /\ nCalls' = nCalls + 1
    /\ memu_client' = r.client
    /\ ctorCalls' = IF CtorInvoked(r.ctor) THEN ctorCalls + 1 ELSE ctorCalls
    /\ allValid' = (allValid /\ config.MEMU_API_KEY # "" /\ r.ctor # "raised")
    /\ call' = [op |-> op, ctx |-> ctx, args |-> args, pre_client |-> memu_client,
                ctor |-> r.ctor, requests |-> r.requests, responses |-> r.responses,
                result |-> r.result]
    /\ UNCHANGED <<config, sched>>

\* A direct call of _initialize_client_if_needed (it returns None).
EnsureClient(ctorEnv) ==
    LET init == initialize_client_if_needed(memu_client, config, ctorEnv, ctorCalls + 1)
    IN  Invoke("ensure", IdleCall.ctx, <<>>,
               [client |-> init.client, ctor |-> init.ctor, requests |-> <<>>,
                responses |-> <<>>, result |-> Returned(<<>>)])

Inject(ctx, ctorEnv, remoteEnv) ==
    Invoke("inject", ctx, <<>>,
           inject_relevant_memories(memu_client, config, ctx, ctorEnv, remoteEnv,
                                    ctorCalls + 1))

Memorize(ctx, chat_key, conversation, agent_id, agent_name, ctorEnv, remoteEnv) ==
    Invoke("memorize", ctx,
           [chat_key |-> chat_key, conversation |-> conversation,
            agent_id |-> agent_id, agent_name |-> agent_name],
           memorize_conversation(memu_client, config, ctx, chat_key, conversation,
                                 agent_id, agent_name, ctorEnv, remoteEnv,
                                 ctorCalls + 1))

Recall(ctx, query, ctorEnv, remoteEnv) ==
    Invoke("recall", ctx, [query |-> query],
           recall_memory(memu_client, config, ctx, query, ctorEnv, remoteEnv,
                         ctorCalls + 1))

\* The host stores a new plugin configuration; plugin.get_config returns it
\* from then on.  The slot memu_client is not touched.
SetConfig(cfg) ==
    /\ cfg # config
    /\ config' = cfg
    /\ call' = IdleCall
    /\ UNCHANGED <<memu_client, ctorCalls, nCalls, allValid, sched>>

HostContexts == {AgentCtx(c, <<>>) : c \in Chats}

Next ==
    \/ \E e \in CtorOutcomes : EnsureClient(e)
    \/ \E ctx \in Contexts, e \in CtorOutcomes, r \in RetrieveOutcomes :
            Inject(ctx, e, r)
    \/ \E ctx \in HostContexts, k \in {"chat_a", "chat_b"}, c \in Conversations,
          id \in OptionalIds, name \in OptionalNames,
          e \in CtorOutcomes, r \in MemorizeOutcomes :
            Memorize(ctx, k, c, id, name, e, r)
    \/ \E ctx \in HostContexts, q \in Queries, e \in CtorOutcomes,
          r \in RetrieveOutcomes :
            Recall(ctx, q, e, r)
    \/ \E cfg \in Configs : SetConfig(cfg)

Spec == Init /\ [][Next]_vars

-----------------------------------------------------------------------------
(* Query windowing: the injector alone, over every history up to MaxHist *)

WindowConfig == [DefaultConfig EXCEPT !.MEMU_API_KEY = "key1"]

InitWindow ==
    /\ Init
    /\ config = WindowConfig

NextWindow ==
    \E ctx \in LongContexts :
        Inject(ctx, "ok", RemoteReturns(Some(RetrieveResponse(<<>>))))

SpecWindow == InitWindow /\ [][NextWindow]_vars

-----------------------------------------------------------------------------
(* Remote traffic of the injector: histories with empty contents, and more
   values of RECALL_TOP_K *)

TrafficConfigs ==
    {[DefaultConfig EXCEPT !.MEMU_API_KEY = validate_api_key(k), !.RECALL_TOP_K = t] :
        k \in ApiKeyInputs, t \in {0, 1, 3}}

TrafficContexts ==
    {AgentCtx(<<"chat_a", "Alice">>, h) :
        h \in {<<>>, <<MsgBlank>>, <<MsgBlank, MsgBlank>>, <<MsgUser, MsgBot>>}}

TrafficOutcomes ==
    {RemoteRaises(ExcTimeout.type, ExcTimeout.msg), RemoteReturns(None),
     RemoteReturns(Some(RetrieveResponse(<<MemoryItem(<<"likes blue">>)>>)))}

NextTraffic ==
    \/ \E ctx \in TrafficContexts, e \in CtorOutcomes, r \in TrafficOutcomes :
            Inject(ctx, e, r)
    \/ \E cfg \in TrafficConfigs : SetConfig(cfg)

SpecTraffic == Init /\ [][NextTraffic]_vars

-----------------------------------------------------------------------------
(* Overlapping invocations on one cooperative scheduler: each handler in the
   steps of its code, the loop changing hands only at a suspension point *)

\* An await that suspends, as a position.  The initialiser is awaited by
\* every handler but contains no await itself, MemuClient(...) and the client
\* methods are plain calls: no position of a handler gives up the loop.
SuspensionPoint_constructor(pc) == pc = "L73"

SuspensionPoint(pc) == FALSE

CanRun(t) == sched.running = t \/ sched.running = 0

\* Task t moves to position pc with its record changed to rec; it keeps the
\* loop unless pc is a suspension point or the end of the coroutine.
Move(t, rec, pc) ==
    sched' = [task |-> [sched.task EXCEPT ![t] = [rec EXCEPT !.pc = pc]],
              running |-> IF pc = "done" \/ SuspensionPoint(pc) THEN 0 ELSE t]

\* The host invokes a mounted entry point: a coroutine is created.
TaskInvoke(t, op) ==
    /\ sched.task[t].pc = "idle"
    /\ sched' = [sched EXCEPT !.task[t] =
                    [IdleTask EXCEPT !.pc = "ready", !.op = op,
                        !.overlapped = \E u \in Tasks \ {t} :
                            sched.task[u].pc \notin {"idle", "done"}]]
    /\ UNCHANGED <<config, memu_client, ctorCalls, nCalls, allValid, call>>

\* The loop starts the coroutine: await _initialize_client_if_needed()
TaskStart(t) ==
    /\ sched.task[t].pc = "ready"
    /\ sched.running = 0
    /\ Move(t, sched.task[t], "L63")
    /\ UNCHANGED <<config, memu_client, ctorCalls, nCalls, allValid, call>>

\* if memu_client is not None: return; if not MEMU_API_KEY: return
TaskCheck(t) ==
    /\ sched.task[t].pc = "L63"
    /\ CanRun(t)
    /\ Move(t, sched.task[t],
            IF memu_client # None \/ config.MEMU_API_KEY = "" THEN "body" ELSE "L73")
    /\ UNCHANGED <<config, memu_client, ctorCalls, nCalls, allValid, call>>

\* MemuClient(base_url=..., api_key=...) inside try/except
TaskConstruct(t, ctorEnv) ==
    /\ sched.task[t].pc = "L73"
    /\ CanRun(t)
    /\ ctorCalls' = ctorCalls + 1
    /\ IF ctorEnv = "ok"
       THEN Move(t, [sched.task[t] EXCEPT !.built =
                        Some(MemuClient(config.BASE_URL, config.MEMU_API_KEY,
                                        ctorCalls + 1))], "store")
       ELSE Move(t, sched.task[t], "body")
    /\ UNCHANGED <<config, memu_client, nCalls, allValid, call>>

\* memu_client = <the constructed handle>
TaskStore(t) ==
    /\ sched.task[t].pc = "store"
    /\ CanRun(t)
    /\ memu_client' = sched.task[t].built
    /\ Move(t, sched.task[t], "body")
    /\ UNCHANGED <<config, ctorCalls, nCalls, allValid, call>>

\* The rest of the handler, with the slot as it is now, to its return or raise.
TaskBody(t) ==
    /\ sched.task[t].pc = "body"
    /\ CanRun(t)
    /\ Move(t, [sched.task[t] EXCEPT !.used = memu_client], "done")
    /\ UNCHANGED <<config, memu_client, ctorCalls, nCalls, allValid, call>>

NextTasks ==
    \/ \E t \in Tasks, op \in {"inject", "recall", "memorize"} : TaskInvoke(t, op)
    \/ \E t \in Tasks : TaskStart(t)
    \/ \E t \in Tasks : TaskCheck(t)
    \/ \E t \in Tasks, e \in CtorOutcomes : TaskConstruct(t, e)
    \/ \E t \in Tasks : TaskStore(t)
    \/ \E t \in Tasks : TaskBody(t)

SpecTasks == Init /\ [][NextTasks]_vars

-----------------------------------------------------------------------------
(* Properties *)

\* text contains sub as a contiguous run of pieces
Contains(text, sub) ==
    \E i \in 1..(Len(text) + 1) :
        /\ i + Len(sub) - 1 <= Len(text)
        /\ SubSeq(text, i, i + Len(sub) - 1) = sub

Called(op) == call.op = op

\* C1 (P1, idempotent lazy init): as long as every invocation of the
\* initialiser so far ran with a non-empty API key and no constructor call
\* raised, N >= 1 invocations have called the MemuClient constructor exactly
\* once (the first of them), and every later invocation found the handle in
\* the slot, called no constructor and left the same handle there.
C1_ConstructedOnce ==
    /\ (allValid /\ nCalls >= 1) =>
            /\ ctorCalls = 1
            /\ memu_client # None
            /\ memu_client[1].serial = 1
    /\ (allValid /\ nCalls >= 2 /\ ~Called("none")) =>
            /\ call.ctor = "cached"
            /\ memu_client = call.pre_client

C1_Witness ==
    /\ allValid
    /\ nCalls >= 3
    /\ Called("ensure")
    /\ call.ctor = "cached"

C3_InjectNeverRaises ==
    Called("inject") =>
        /\ call.result.kind = "return"
        /\ \A i \in 1..Len(call.responses) :
                call.responses[i].raises => call.result = Returned(<<>>)

C3_Witness ==
    /\ Called("inject")
    /\ Len(call.responses) = 1
    /\ call.responses[1].raises

\* C4: when the slot is still unset after the ensure step (empty key or
\* failed construction), recall and memorize raise ConnectionError, not the
\* RuntimeError of the except clause, issue no remote request and return
\* nothing.
C4_AbsentHandleConnectionError ==
    ((Called("memorize") \/ Called("recall")) /\ memu_client = None) =>
        /\ call.result.kind = "raise"
        /\ call.result.exc_type = "ConnectionError"
        /\ call.result.exc_type # "RuntimeError"
        /\ call.result.value = <<>>
        /\ call.requests = <<>>

C4_Witness ==
    /\ Called("memorize")
    /\ memu_client = None
    /\ call.ctor = "raised"

\* C5: with a handle present, memorize returns the confirmation exactly when
\* the remote memorize request returned; when the request raised, memorize
\* raises RuntimeError with a message that carries the exception's type name
\* and message, and returns no confirmation.
C5_SubmissionFailureSurfaces ==
    (Called("memorize") /\ memu_client # None) =>
        /\ Len(call.requests) = 1
        /\ Len(call.responses) = 1
        /\ (call.result.kind = "return") <=> ~call.responses[1].raises
        /\ ~call.responses[1].raises =>
                /\ call.result.value # <<>>
                /\ Contains(call.result.value,
                            Str(call.requests[1].agent_name))
        /\ call.responses[1].raises =>
                /\ call.result.kind = "raise"
                /\ call.result.exc_type = "RuntimeError"
                /\ call.result.value = <<>>
                /\ Contains(call.result.exc_msg,
                            Str(call.responses[1].exc.type) \o Str(": ")
                                \o call.responses[1].exc.msg)

C5_Witness ==
    /\ Called("memorize")
    /\ memu_client # None
    /\ call.responses[1].raises
    /\ call.responses[1].exc.msg # <<>>

\* C6 (P7): with a handle present, when the retrieve call of the recall tool
\* raises, recall raises RuntimeError with a message that includes the
\* exception's type name and text; it returns neither the "not found"
\* message nor anything else.
C6_RetrievalFailureSurfaces ==
    (Called("recall") /\ memu_client # None /\ call.responses[1].raises) =>
        /\ call.result.kind = "raise"
        /\ call.result.exc_type = "RuntimeError"
        /\ call.result.value = <<>>
        /\ Contains(call.result.exc_msg,
                    Str(call.responses[1].exc.type) \o Str(": ")
                        \o call.responses[1].exc.msg)

C6_Witness ==
    /\ Called("recall")
    /\ memu_client # None
    /\ call.responses[1].raises
    /\ call.responses[1].exc.msg # <<>>

\* C7 (P3): with a constructible client (the slot is set after the ensure
\* step, whether it was set before or constructed by this call) and
\* RECALL_TOP_K = 0, the injector returns "" for every history.
C7_TopKZeroDisables ==
    (Called("inject") /\ memu_client # None /\ config.RECALL_TOP_K = 0) =>
        call.result = Returned(<<>>)

C7_Witness ==
    /\ Called("inject")
    /\ config.RECALL_TOP_K = 0
    /\ call.ctor = "ok"
    /\ call.ctx.message_history # <<>>

\* C8 (P8): the persona of the memorize request is resolved per field: a
\* supplied agent_id is submitted as it is and an omitted one is replaced by
\* the configured AGENT_ID; independently, a supplied agent_name is submitted
\* as it is and an omitted one is replaced by the configured AGENT_NAME.
C8_PersonaOverride ==
    (Called("memorize") /\ call.requests # <<>>) =>
        LET req == call.requests[1]
            given == call.args
        IN  /\ req.op = "memorize"
            /\ given.agent_id # None => req.agent_id = given.agent_id[1]
            /\ given.agent_id = None => req.agent_id = config.AGENT_ID
            /\ given.agent_name # None => req.agent_name = given.agent_name[1]
            /\ given.agent_name = None => req.agent_name = config.AGENT_NAME

C8_Witness ==
    /\ Called("memorize")
    /\ call.requests # <<>>
    /\ call.args.agent_id = Some("X")
    /\ call.args.agent_name = None
    /\ config.AGENT_NAME = "Persona B"
    /\ call.requests[1].agent_id = "X"
    /\ call.requests[1].agent_name = "Persona B"

\* The "role: content" lines of h[from..Len(h)], a newline between two lines.
RECURSIVE LinesFrom(_, _)
LinesFrom(h, from) ==
    IF from > Len(h) THEN <<>>
    ELSE <<h[from].role, ": ">> \o h[from].content
         \o (IF from < Len(h) THEN <<"\n">> ELSE <<>>)
         \o LinesFrom(h, from + 1)

\* C9 (P9): the query the injector sends is made of exactly the last
\* min(4, |h|) messages of the history h, oldest of them first, one
\* "role: content" line per message, the lines joined by newlines.
C9_QueryWindow ==
    (Called("inject") /\ call.requests # <<>>) =>
        LET h == call.ctx.message_history
            k == IF Len(h) < 4 THEN Len(h) ELSE 4
        IN  /\ Len(call.requests) = 1
            /\ call.requests[1].op = "retrieve"
            /\ call.requests[1].query = LinesFrom(h, Len(h) - k + 1)

C9_Witness ==
    /\ Called("inject")
    /\ call.requests # <<>>
    /\ Len(call.ctx.message_history) = 5
    /\ call.ctx.message_history[1] = MsgBlank
    /\ call.ctx.message_history[2] = MsgUser
    /\ call.ctx.message_history[5] = MsgBot

\* One "\n- content" piece run per item, in the order of the list.
RECURSIVE BulletLines(_, _)
BulletLines(items, i) ==
    IF i > Len(items) THEN <<>>
    ELSE <<"\n", "- ">> \o items[i].memory.content \o BulletLines(items, i + 1)

\* C10 (P4/P5, injection formatting): when retrieve returns None or a result
\* with no items, the injector returns ""; when it returns n >= 1 items, the
\* injector returns the header line followed by n lines, the i-th being "- "
\* and the content of the i-th item, joined by newlines, with no newline at
\* the end.
C10_InjectionFormat ==
    (Called("inject") /\ Len(call.responses) = 1 /\ ~call.responses[1].raises) =>
        LET response == call.responses[1].value
            text == call.result.value
        IN  /\ call.result.kind = "return"
            /\ IF response = None \/ Len(response[1].related_memories) = 0
               THEN text = <<>>
               ELSE /\ text = <<"--- Relevant Memories Retrieved From Your Past ---">>
                                \o BulletLines(response[1].related_memories, 1)
                    /\ text[Len(text)] # "\n"

C10_Witness ==
    /\ Called("inject")
    /\ Len(call.responses) = 1
    /\ ~call.responses[1].raises
    /\ call.responses[1].value # None
    /\ Len(call.responses[1].value[1].related_memories) = 2
    /\ call.responses[1].value[1].related_memories[1]
            # call.responses[1].value[1].related_memories[2]

\* The numbered lines "<i>. <content>\n" of items[i..], i written in decimal.
RECURSIVE NumberedLines(_, _)
NumberedLines(items, i) ==
    IF i > Len(items) THEN <<>>
    ELSE <<<<"1", "2", "3", "4", "5", "6", "7", "8", "9">>[i], ". ">>
         \o items[i].memory.content \o <<"\n">>
         \o NumberedLines(items, i + 1)

\* C11 (P4/P5, query formatting): a retrieve that returned never makes the
\* recall tool raise: with None or zero items recall returns the fixed
\* "not found" message; with n >= 1 items it returns the lead-in line followed
\* by n lines numbered 1..n in the order of the list, each "<i>. <content>"
\* ended by a newline.
C11_QueryFormat ==
    (Called("recall") /\ Len(call.responses) = 1 /\ ~call.responses[1].raises) =>
        LET response == call.responses[1].value
            text == call.result.value
        IN  /\ call.result.kind = "return"
            /\ IF response = None \/ Len(response[1].related_memories) = 0
               THEN text = <<NotFoundMessage>>
               ELSE /\ text = <<RecallLeadIn>>
                                \o NumberedLines(response[1].related_memories, 1)
                    /\ text[Len(text)] = "\n"

C11_Witness ==
    /\ Called("recall")
    /\ Len(call.responses) = 1
    /\ ~call.responses[1].raises
    /\ call.responses[1].value # None
    /\ Len(call.responses[1].value[1].related_memories) = 2
    /\ call.responses[1].value[1].related_memories[1]
            # call.responses[1].value[1].related_memories[2]

\* C12: the slot is write-once.  Once memu_client is set, no step (a call of
\* any handler with any remote outcome, or a configuration change that empties
\* or changes the API key or the base URL) unsets or replaces it, and no step
\* calls the constructor again; a handler that found the slot set reports the
\* initialiser's early return.
C12_SlotWriteOnce ==
    [][memu_client # None =>
            /\ memu_client' = memu_client
            /\ ctorCalls' = ctorCalls
            /\ (nCalls' = nCalls + 1) =>
                    (call'.ctor = "cached" /\ call'.pre_client = memu_client)]_vars

C12_Witness ==
    /\ Called("inject")
    /\ memu_client # None
    /\ call.pre_client = memu_client
    /\ config.MEMU_API_KEY = ""
    /\ config.BASE_URL # memu_client[1].base_url
    /\ memu_client[1].api_key = "key1"
    /\ Len(call.requests) = 1
    /\ call.responses[1].raises

\* C13: a failed construction is recoverable.  A call whose constructor raised
\* leaves the slot unset and does not pass the constructor's exception on (the
\* initialiser and the injector return, recall and memorize raise their
\* ConnectionError); and from any state with the slot unset, the next handler
\* call made under a non-empty API key calls the constructor again, and when
\* that call succeeds the slot is set and recall and memorize go on to their
\* remote request.
C13_FailureRecoverable ==
    /\ [](call.ctor = "raised" =>
            /\ memu_client = None
            /\ call.requests = <<>>
            /\ (Called("ensure") \/ Called("inject")) => call.result = Returned(<<>>)
            /\ (Called("memorize") \/ Called("recall")) =>
                    call.result = Raised("ConnectionError", <<NotInitializedMessage>>))
    /\ [][(memu_client = None /\ nCalls' = nCalls + 1 /\ config.MEMU_API_KEY # "") =>
            /\ ctorCalls' = ctorCalls + 1
            /\ call'.ctor \in {"ok", "raised"}
            /\ call'.ctor = "ok" =>
                    /\ memu_client' # None
                    /\ call'.op \in {"memorize", "recall"} =>
                            (Len(call'.requests) = 1 /\ call'.requests[1].handle = memu_client'[1])]_vars

C13_Witness ==
    /\ Called("recall")
    /\ ctorCalls >= 3
    /\ call.ctor = "ok"
    /\ Len(call.requests) = 1
    /\ call.result.kind = "return"

\* The first handler call of the process, made under a non-empty API key with
\* a constructor that does not raise.
FirstCallConstructible ==
    /\ nCalls = 1
    /\ call.op \in {"inject", "recall", "memorize"}
    /\ config.MEMU_API_KEY # ""
    /\ call.ctor # "raised"

\* Every request of the recorded call went through the handle in the slot.
RequestsUseSlot ==
    \A i \in 1..Len(call.requests) :
        memu_client # None /\ call.requests[i].handle = memu_client[1]

\* C14 as claimed: the very first invocation of any of inject, recall or
\* memorize, under a non-empty key and a succeeding constructor, constructs
\* the handle and issues its remote request, without ConnectionError; and no
\* request is issued while the slot is unset.
C14_FirstCallAlwaysAsks ==
    /\ FirstCallConstructible =>
            /\ call.pre_client = None
            /\ call.ctor = "ok"
            /\ memu_client # None
            /\ Len(call.requests) = 1
            /\ call.result.exc_type # "ConnectionError"
    /\ RequestsUseSlot

\* C14 as amended: the first invocation constructs the handle itself; recall
\* and memorize then issue their request and do not raise ConnectionError;
\* inject issues its request unless RECALL_TOP_K = 0 or the history is empty,
\* and then returns "" without one.  No request is issued while the slot is
\* unset.
C14_FirstCallConstructs ==
    /\ FirstCallConstructible =>
            /\ call.pre_client = None
            /\ call.ctor = "ok"
            /\ memu_client # None
            /\ call.result.exc_type # "ConnectionError"
            /\ IF Called("inject")
                    /\ (config.RECALL_TOP_K = 0 \/ call.ctx.message_history = <<>>)
               THEN call.requests = <<>> /\ call.result = Returned(<<>>)
               ELSE Len(call.requests) = 1
    /\ RequestsUseSlot

C14_Witness ==
    /\ FirstCallConstructible
    /\ Called("memorize")
    /\ call.ctor = "ok"
    /\ Len(call.requests) = 1
    /\ call.result.kind = "return"

\* The recorded memorize call made again from the same state with the same
\* context, arguments and outcomes of the constructor and of the service, but
\* with chat_key k.
MemorizeAgainWith(k) ==
    memorize_conversation(call.pre_client, config, call.ctx, k,
                          call.args.conversation, call.args.agent_id,
                          call.args.agent_name,
                          IF call.ctor = "raised" THEN "raise" ELSE "ok",
                          IF call.responses = <<>> THEN RemoteReturns(None)
                          ELSE call.responses[1],
                          ctorCalls)

\* C15 (requester scoping): every request a handler issues carries the
\* invoking context's from_chat_key as user_id; and the chat_key argument of
\* memorize has no influence: the same call made with any other chat_key
\* submits the same requests, leaves the same slot and has the same result.
C15_RequesterScoping ==
    /\ \A i \in 1..Len(call.requests) :
            call.requests[i].user_id = call.ctx.from_chat_key
    /\ Called("memorize") =>
            \A k \in {"chat_a", "chat_b", "chat_c"} :
                /\ MemorizeAgainWith(k).requests = call.requests
                /\ MemorizeAgainWith(k).result = call.result
                /\ MemorizeAgainWith(k).client = memu_client

C15_Witness ==
    /\ Called("memorize")
    /\ Len(call.requests) = 1
    /\ call.ctx.from_chat_key = "chat_a"
    /\ call.args.chat_key = "chat_b"
    /\ call.requests[1].user_id = "chat_a"

\* C16 (single construction under overlapping calls): for overlapping
\* invocations on one cooperative scheduler, at most one task at a time is
\* between the check of the slot and the store into it, the constructor
\* succeeds at most once, and a stored handle is never overwritten: every task
\* that constructed a handle and went on finds its own handle in the slot,
\* and no task has used a handle other than the one in the slot.
C16_SingleConstruction ==
    /\ Cardinality({t \in Tasks : sched.task[t].pc \in {"L73", "store"}}) <= 1
    /\ Cardinality({t \in Tasks : sched.task[t].built # None}) <= 1
    /\ \A t \in Tasks :
            (sched.task[t].built # None /\ sched.task[t].pc \in {"body", "done"}) =>
                memu_client = sched.task[t].built
    /\ \A t \in Tasks :
            sched.task[t].used # None => sched.task[t].used = memu_client

C16_Witness ==
    \E t, u \in Tasks :
        /\ t # u
        /\ sched.task[t].pc = "done"
        /\ sched.task[u].pc = "done"
        /\ sched.task[u].overlapped
        /\ sched.task[t].built # None
        /\ sched.task[u].built = None
        /\ sched.task[u].used = sched.task[t].built

\* C17 (remote traffic of the injector): one invocation of inject issues at
\* most one request and never a memorize request; it issues none when the
\* slot is unset after the ensure step, when RECALL_TOP_K = 0 or when the
\* history is empty, and exactly one retrieve request, with top_k the
\* configured RECALL_TOP_K and a non-empty query, in every other case, also
\* when every message of the history has an empty content.
C17_InjectTraffic ==
    Called("inject") =>
        /\ Len(call.requests) <= 1
        /\ \A i \in 1..Len(call.requests) : call.requests[i].op = "retrieve"
        /\ IF memu_client = None \/ config.RECALL_TOP_K = 0
                \/ call.ctx.message_history = <<>>
           THEN call.requests = <<>>
           ELSE /\ Len(call.requests) = 1
                /\ call.requests[1].top_k = config.RECALL_TOP_K
                /\ call.requests[1].query # <<>>

C17_Witness ==
    /\ Called("inject")
    /\ call.ctx.message_history = <<MsgBlank, MsgBlank>>
    /\ config.RECALL_TOP_K = 1
    /\ Len(call.requests) = 1
    /\ call.requests[1].top_k = 1

\* C18 (active recall is independent of the auto-recall setting): with a
\* handle present, every call of the recall tool issues one retrieve request
\* with top_k = 3 and the caller's query, whatever RECALL_TOP_K is; so with
\* RECALL_TOP_K = 0 it still queries the service and, when the service
\* answers, returns the formatted answer.
C18_RecallFixedTopK ==
    (Called("recall") /\ memu_client # None) =>
        /\ Len(call.requests) = 1
        /\ call.requests[1].op = "retrieve"
        /\ call.requests[1].top_k = 3
        /\ call.requests[1].query = call.args.query
        /\ ~call.responses[1].raises =>
                /\ call.result.kind = "return"
                /\ call.result.value # <<>>
                /\ (call.responses[1].value # None
                        /\ call.responses[1].value[1].related_memories # <<>>) =>
                        Contains(call.result.value,
                                 call.responses[1].value[1].related_memories[1].memory.content)

C18_Witness ==
    /\ Called("recall")
    /\ config.RECALL_TOP_K = 0
    /\ Len(call.requests) = 1
    /\ call.requests[1].top_k = 3
    /\ ~call.responses[1].raises
    /\ call.responses[1].value # None
    /\ Len(call.responses[1].value[1].related_memories) = 2
    /\ call.result.kind = "return"

=============================================================================
